---- MODULE Spec2Model ----
(***************************************************************************)
(* SynTactic: the target-communication layer.                              *)
(*                                                                         *)
(*   Part I   Response Capture Controller (SynTacticApp.py 325-353)        *)
(*   Part II  Transport: TerminalWidget / SerialThread (terminal.py)       *)
(*   Part III Command/Transfer Orchestrator: the UI handlers of MainApp    *)
(*                                                                         *)
(* Captured text and names are sequences of one-character strings; text   *)
(* typed, sent or read is a sequence of code points.  Variables that are   *)
(* not fields of the program (history variables) are marked "history".     *)
(***************************************************************************)
EXTENDS Integers, Sequences, FiniteSets, TLC

\* ------------------------------------------------------------------ bounds
MaxStream == 4      \* characters notified after one registration
MaxChunk  == 3      \* characters in one notification
MaxRegs   == 2      \* registrations in one behaviour
MaxDepth  == 2      \* receive_characters_from_target calls active at once
MaxThreads == 2     \* SerialThread objects alive at once
MaxNest   == 2      \* handlers active at once (one per app.processEvents())
MaxText   == 1      \* characters typed into a document
MaxDocNest == 1     \* handlers active at once while documents are edited
MaxSent   == 3      \* items one SerialThread object is given by ser_out

VARIABLES
    \* ---- Part I: MainApp.callback / captured_text / ending
    callback,       \* None, or [id, kind] of the registered consumer
    captured_text,  \* the accumulator
    ending,         \* the sentinel
    cstack,         \* activations of receive_characters_from_target that are
                    \* inside self.callback(...): the registration id invoked
    regCount,       \* history: registrations made so far
    lastReq,        \* history: arguments of the newest registration
    superseded,     \* history: ids replaced while they were pending
    stream,         \* history: text notified since the newest registration
    delivered,      \* history: what the newest registration's consumer was
                    \* handed, one [text, before] per invocation; before is
                    \* the length of stream when the completing chunk came
    staleInvoked,   \* history: a consumer other than the newest registration's
                    \* was invoked
    \* ---- Part II: TerminalWidget / SerialThread
    serial_thread,  \* TerminalWidget.serial_thread: 0 (no attribute) or an id
    thr,            \* the SerialThread objects, by id
    \* ---- Part III: MainApp
    boardOpen,      \* self.board holds the serial device open
    port_count,     \* self.port_combo.count()
    target_files,   \* the items of the QListWidget self.target_files
    editor,         \* self.tab_widget.currentWidget()
    stack,          \* the handlers active on the UI thread, innermost last
    lastRaw,        \* history: what ls() returned to the List Files that
                    \* last updated the display
    prevShown,      \* history: what the display held before that update
    lastPut,        \* history: the newest put() that reached the target
    lastUpload,     \* history: how the newest Upload click was answered
    stdout,         \* history: the newest text handed to sys.stdout.write,
                    \* which TerminalWidget.write emits as text_update
    \* ---- the process
    fatal           \* "none", or why the process was aborted (qFatal), or
                    \* "exited": app.exec_() has returned to sys.exit

capVars == <<callback, captured_text, ending, cstack, regCount, lastReq,
             superseded, stream, delivered, staleInvoked>>

connVars == <<serial_thread, thr, boardOpen, port_count, target_files,
              editor, stack, lastRaw, prevShown, lastPut, lastUpload,
              stdout>>

vars == <<callback, captured_text, ending, cstack, regCount, lastReq,
          superseded, stream, delivered, staleInvoked,
          serial_thread, thr, boardOpen, port_count, target_files,
          editor, stack, lastRaw, prevShown, lastPut, lastUpload, stdout,
          fatal>>

None == [id |-> 0, kind |-> "None"]

\* An unhandled Python exception in a slot or in QThread.run, and the
\* destruction of a running QThread, end in qFatal(): the process aborts.
alive == fatal = "none"

\* ------------------------------------------------------------ text helpers
Chars == {"a", "b", "\n"}

\* all texts over Chars of length lo..hi
Texts(lo, hi) == UNION {[1..n -> Chars] : n \in lo..hi}

\* s[i:j] of Python for 0 <= i <= j <= len(s)
Slice(s, i, j) == SubSeq(s, i + 1, j)

\* sub occurs in s at 0-based offset i
OccursAt(s, sub, i) ==
    /\ i >= 0
    /\ i + Len(sub) <= Len(s)
    /\ Slice(s, i, i + Len(sub)) = sub

\* str.find: the lowest offset where sub occurs, -1 when there is none
RECURSIVE FindFrom(_, _, _)
FindFrom(s, sub, i) ==
    IF i + Len(sub) > Len(s) THEN -1
    ELSE IF Slice(s, i, i + Len(sub)) = sub THEN i
    ELSE FindFrom(s, sub, i + 1)

\* a variant that is content with the first character of sub
Find_FirstChar(s, sub) == FindFrom(s, SubSeq(sub, 1, 1), 0)

Find(s, sub) == FindFrom(s, sub, 0)

\* str.splitlines(keepends=True), for the line boundary "\n"
RECURSIVE SplitLinesFrom(_, _)
SplitLinesFrom(s, cur) ==
    IF s = <<>> THEN (IF cur = <<>> THEN <<>> ELSE <<cur>>)
    ELSE IF Head(s) = "\n"
         THEN <<Append(cur, Head(s))>> \o SplitLinesFrom(Tail(s), <<>>)
         ELSE SplitLinesFrom(Tail(s), Append(cur, Head(s)))

SplitLinesKeepEnds(s) == SplitLinesFrom(s, <<>>)

\* ''.join(lines)
RECURSIVE Join(_)
Join(lines) == IF lines = <<>> THEN <<>> ELSE Head(lines) \o Join(Tail(lines))

\* =========================================================================
\* Part I: Response Capture Controller
\* =========================================================================

\* What a consumer does with self.callback when it is invoked: the two
\* consumers of the repository clear it in their first statement; a
\* consumer handed in by a caller need not.
CallbackKinds == {"plain", "clears"}

Endings == {<<"\n">>, <<"a", "a">>, <<"a", "b">>, <<"b", "\n">>}

\* a variant that keeps a consumer that is already pending
Register_KeepPending(cb, e) ==
    /\ alive
    /\ cstack = <<>>
    /\ regCount < MaxRegs
    /\ captured_text' = <<>>
    /\ callback' = IF callback # None THEN callback
                   ELSE IF cb = "None" THEN None
                   ELSE [id |-> regCount + 1, kind |-> cb]
    /\ ending' = e
    /\ regCount' = regCount + 1
    /\ lastReq' = [cb |-> cb, ending |-> e]
    /\ superseded' = IF callback # None THEN superseded \cup {callback.id}
                     ELSE superseded
    /\ stream' = <<>>
    /\ delivered' = <<>>
    /\ UNCHANGED <<cstack, staleInvoked, fatal>>
    /\ UNCHANGED connVars

\* callback_with_text_from_target(callback, ending), called from a handler
\* (not from inside a running consumer)
Register(cb, e) ==
    /\ alive
    /\ cstack = <<>>
    /\ regCount < MaxRegs
    /\ captured_text' = <<>>
    /\ callback' = IF cb = "None" THEN None
                   ELSE [id |-> regCount + 1, kind |-> cb]
    /\ ending' = e
    /\ regCount' = regCount + 1
    /\ lastReq' = [cb |-> cb, ending |-> e]
    /\ superseded' = IF callback # None THEN superseded \cup {callback.id}
                     ELSE superseded
    /\ stream' = <<>>
    /\ delivered' = <<>>
    /\ UNCHANGED <<cstack, staleInvoked, fatal>>
    /\ UNCHANGED connVars

\* callback_with_text_from_target(callback, ending), called by a consumer
\* while receive_characters_from_target is inside self.callback(...)
RegisterInsideCallback(cb, e) ==
    /\ alive
    /\ cstack # <<>>
    /\ regCount < MaxRegs
    /\ captured_text' = <<>>
    /\ callback' = IF cb = "None" THEN None
                   ELSE [id |-> regCount + 1, kind |-> cb]
    /\ ending' = e
    /\ regCount' = regCount + 1
    /\ lastReq' = [cb |-> cb, ending |-> e]
    /\ superseded' = IF callback # None THEN superseded \cup {callback.id}
                     ELSE superseded
    /\ stream' = <<>>
    /\ delivered' = <<>>
    /\ UNCHANGED <<cstack, staleInvoked, fatal>>
    /\ UNCHANGED connVars

\* The slot's body for one notification: accumulate, then search the
\* accumulated text.  searched is the text handed to splitlines/find.
ReceiveBody(s, searched) ==
    /\ captured_text' = captured_text \o s
    /\ stream' = stream \o s
    /\ IF callback # None
       THEN LET joined == Join(SplitLinesKeepEnds(searched))
                inx == Find(joined, ending)
            IN IF inx # -1
               THEN \* self.callback(joined[:inx]) starts; line 353 has not run
                    /\ IF callback.id = regCount
                       THEN /\ delivered' = Append(delivered,
                                      [text |-> Slice(joined, 0, inx),
                                       before |-> Len(stream)])
                            /\ UNCHANGED staleInvoked
                       ELSE /\ staleInvoked' = TRUE
                            /\ UNCHANGED delivered
                    /\ cstack' = Append(cstack, callback.id)
                    /\ callback' = IF callback.kind = "clears" THEN None
                                   ELSE callback
               ELSE UNCHANGED <<delivered, staleInvoked, cstack, callback>>
       ELSE UNCHANGED <<delivered, staleInvoked, cstack, callback>>
    /\ UNCHANGED <<ending, regCount, lastReq, superseded, fatal>>
    /\ UNCHANGED connVars

\* a variant that searches the new chunk only
receive_chunk_only(s) == ReceiveBody(s, s)

\* receive_characters_from_target(text)
receive_characters_from_target(s) == ReceiveBody(s, captured_text \o s)

\* A notification handled by the event loop: no consumer is running.
Notify(s) ==
    /\ alive
    /\ cstack = <<>>
    /\ Len(stream) + Len(s) <= MaxStream
    /\ receive_characters_from_target(s)

\* A notification handled while a consumer is running: the consumer wrote
\* to sys.stdout (TerminalWidget.write emits text_update, delivered by a
\* direct call in the emitting thread) or let the event loop run.
NotifyInsideCallback(s) ==
    /\ alive
    /\ cstack # <<>>
    /\ Len(cstack) < MaxDepth
    /\ Len(stream) + Len(s) <= MaxStream
    /\ receive_characters_from_target(s)

\* 'Disconnected!', as print() hands it to sys.stdout.write
DisconnectedText ==
    <<"D", "i", "s", "c", "o", "n", "n", "e", "c", "t", "e", "d", "!">>

\* print(line) by a handler on the UI thread while no consumer is running.
\* sys.stdout is the TerminalWidget (terminal.py 125), write emits
\* text_update (136-137), and the signal is connected to
\* receive_characters_from_target (SynTacticApp.py 85): the slot runs for
\* the line and for the line end that print writes after it.  No sentinel
\* of Endings can end inside the line, so the two calls are taken together.
PrintNotified(line) ==
    /\ alive
    /\ cstack = <<>>
    /\ Len(stream) <= MaxStream
    /\ receive_characters_from_target(line \o <<"\n">>)

\* The consumer returns: line 353 runs in the activation that invoked it.
CallbackReturns ==
    /\ alive
    /\ cstack # <<>>
    /\ cstack' = SubSeq(cstack, 1, Len(cstack) - 1)
    /\ callback' = None
    /\ UNCHANGED <<captured_text, ending, regCount, lastReq, superseded,
                   stream, delivered, staleInvoked, fatal>>
    /\ UNCHANGED connVars

\* The consumer raises (get_target_files_callback: text_lines[1] with fewer
\* than two lines): the exception leaves the slot unhandled.
CallbackRaises ==
    /\ alive
    /\ cstack # <<>>
    /\ fatal' = "unhandled exception"
    /\ UNCHANGED capVars
    /\ UNCHANGED connVars

\* =========================================================================
\* Part II: Transport (terminal.py)
\* =========================================================================

ThreadIds == 1..MaxThreads

\* what sys.stdout last received: a line from print(), or text from display()
Printed(l) == [line |-> l, data |-> <<>>]

Shown(d) == [line |-> "", data |-> d]

\* the text of a carriage return, as code points
CR == <<13>>

\* A SerialThread object: pc is where run() is, running the stop flag, ser
\* whether self.ser holds an open handle, txq the queue.  sent and wire are
\* history: the items ser_out was given and the items written to the port;
\* rx is history: what the newest read returned.
\* no SerialThread object has this id
NoThread == [pc |-> "free", running |-> FALSE, ser |-> FALSE, txq |-> <<>>,
             sent |-> <<>>, wire |-> <<>>, rx |-> <<>>]

\* SerialThread.__init__ followed by start(): run() has not begun
NewThread == [pc |-> "start", running |-> TRUE, ser |-> FALSE, txq |-> <<>>,
              sent |-> <<>>, wire |-> <<>>, rx |-> <<>>]

\* QThread.isRunning(): from start() until run() has returned
isRunning(i) == thr[i].pc \in {"start", "loop", "read", "write"}

\* TerminalWidget.is_connected
is_connected == serial_thread # 0 /\ isRunning(serial_thread)

\* the ids a new SerialThread can take while object keep still exists
FreeIds(keep) == {i \in ThreadIds : i # keep /\ thr[i].pc = "free"}

LowestFree(keep) == CHOOSE i \in FreeIds(keep) : \A j \in FreeIds(keep) : i <= j

\* a variant that leaves the stop flag as it is when the open fails
FlagAfterOpen_Kept(i, ok) == thr[i].running

\* run(), lines 235-237: after a failed open running is set False
FlagAfterOpen(i, ok) == IF ok THEN thr[i].running ELSE FALSE

\* run(), lines 223-237: "Opening ..." is printed and the port is opened;
\* after a failure ser is None, "Can't open port" is printed and running is
\* set False, so the loop below is not entered
WorkerOpen(i, ok) ==
    /\ alive
    /\ thr[i].pc = "start"
    /\ thr' = [thr EXCEPT ![i].pc = "loop",
                          ![i].ser = ok,
                          ![i].running = FlagAfterOpen(i, ok)]
    /\ stdout' = Printed(IF ok THEN "Opening" ELSE "Can't open port")
    /\ UNCHANGED <<serial_thread, boardOpen, port_count, target_files, editor,
                   stack, lastRaw, prevShown, lastPut, lastUpload, fatal>>
    /\ UNCHANGED capVars

\* run(), lines 249-251: after the loop the port is closed; run() returns
Exited(t) == [t EXCEPT !.pc = "finished", !.ser = FALSE]

\* run(), line 239 and lines 249-251: the loop test.  When run() of an
\* object nothing refers to returns, the object is freed: quietly, or, as
\* the QThread is destroyed before it has finished, fatally.
WorkerCheck(i) ==
    /\ alive
    /\ thr[i].pc = "loop"
    /\ IF thr[i].running
       THEN /\ thr' = [thr EXCEPT ![i].pc = "read"]
            /\ UNCHANGED fatal
       ELSE IF i = serial_thread
       THEN /\ thr' = [thr EXCEPT ![i] = Exited(thr[i])]
            /\ UNCHANGED fatal
       ELSE \/ /\ thr' = [thr EXCEPT ![i] = NoThread]
               /\ UNCHANGED fatal
            \/ /\ thr' = [thr EXCEPT ![i] = Exited(thr[i])]
               /\ fatal' = "QThread destroyed while running"
    /\ UNCHANGED <<serial_thread, boardOpen, port_count, target_files, editor,
                   stack, lastRaw, prevShown, lastPut, lastUpload>>
    /\ UNCHANGED <<capVars, stdout>>

\* run(), lines 240-243: one read poll (bounded by SER_TIMEOUT) that
\* returns nothing
WorkerRead(i) ==
    /\ alive
    /\ thr[i].pc = "read"
    /\ thr' = [thr EXCEPT ![i].pc = "write", ![i].rx = <<>>]
    /\ UNCHANGED <<serial_thread, boardOpen, port_count, target_files, editor,
                   stack, lastRaw, prevShown, lastPut, lastUpload, fatal>>
    /\ UNCHANGED <<capVars, stdout>>

\* run(), lines 245-247: at most one queued item is written
WorkerWrite(i) ==
    /\ alive
    /\ thr[i].pc = "write"
    /\ thr' = [thr EXCEPT ![i].pc = "loop",
                          ![i].txq = IF thr[i].txq = <<>> THEN <<>>
                                     ELSE Tail(thr[i].txq),
                          ![i].wire = IF thr[i].txq = <<>> THEN thr[i].wire
                                      ELSE Append(thr[i].wire, Head(thr[i].txq))]
    /\ UNCHANGED <<serial_thread, boardOpen, port_count, target_files, editor,
                   stack, lastRaw, prevShown, lastPut, lastUpload, fatal>>
    /\ UNCHANGED <<capVars, stdout>>

\* ---- what is read, and how it is shown
\* the digit of "%X" for n in 0..15, as a code point
HexDigit(n) == IF n < 10 THEN 48 + n ELSE 55 + n

\* bytes_to_str, lines 67-69: one character per byte, chr(b)
bytes_to_str(d) == [k \in DOMAIN d |-> d[k]]

\* textdump, lines 77-79: a character above '\x7e' becomes "[%02X]"
RECURSIVE textdump(_)
textdump(data) ==
    IF data = <<>> THEN <<>>
    ELSE (IF Head(data) > 126
          THEN <<91, HexDigit(Head(data) \div 16), HexDigit(Head(data) % 16), 93>>
          ELSE <<Head(data)>>) \o textdump(Tail(data))

\* display with hexmode False (line 24): one sys.stdout.write
display(s) == Shown(textdump(s))

\* run(), lines 240-243: the read returns the chunk s, and ser_in displays it
WorkerReadData(i, s) ==
    /\ alive
    /\ thr[i].pc = "read"
    /\ thr' = [thr EXCEPT ![i].pc = "write", ![i].rx = s]
    /\ stdout' = display(bytes_to_str(s))
    /\ UNCHANGED <<serial_thread, boardOpen, port_count, target_files, editor,
                   stack, lastRaw, prevShown, lastPut, lastUpload, fatal>>
    /\ UNCHANGED capVars

\* run(), line 240: the read (or in_waiting) raises, as when the device is
\* unplugged.  Nothing in run() catches it: run() is left at once, the close
\* of lines 249-251 is not reached, and the exception leaving a Python
\* reimplementation of QThread.run is fatal in PyQt5.
WorkerReadFault(i) ==
    /\ alive
    /\ thr[i].pc = "read"
    /\ thr' = [thr EXCEPT ![i].pc = "raised"]
    /\ fatal' = "unhandled exception"
    /\ UNCHANGED <<serial_thread, boardOpen, port_count, target_files, editor,
                   stack, lastRaw, prevShown, lastPut, lastUpload>>
    /\ UNCHANGED <<capVars, stdout>>

\* run(), lines 245-247: an item has been taken from the queue and the
\* write raises
WorkerWriteFault(i) ==
    /\ alive
    /\ thr[i].pc = "write"
    /\ thr[i].txq # <<>>
    /\ thr' = [thr EXCEPT ![i].pc = "raised", ![i].txq = Tail(@)]
    /\ fatal' = "unhandled exception"
    /\ UNCHANGED <<serial_thread, boardOpen, port_count, target_files, editor,
                   stack, lastRaw, prevShown, lastPut, lastUpload>>
    /\ UNCHANGED <<capVars, stdout>>

\* a variant that leaves the stop flag alone
StopFlagSet_NoFlag == thr

\* close_serial_port_and_wait, line 194: the stop flag (AttributeError when
\* there is no serial_thread: passed quietly)
StopFlagSet ==
    IF serial_thread = 0 THEN thr
    ELSE [thr EXCEPT ![serial_thread].running = FALSE]

\* where the worker is in run() ("none": there is no serial_thread)
WorkerAt == IF serial_thread = 0 THEN "none" ELSE thr[serial_thread].pc

\* a variant without the except clause's way out
WaitDone_NoAttribute == serial_thread # 0 /\ ~isRunning(serial_thread)

\* close_serial_port_and_wait, line 195: QThread.wait() returns once run()
\* has returned; with no serial_thread the except clause is taken at once
WaitDone == IF serial_thread = 0 THEN TRUE ELSE ~isRunning(serial_thread)

\* terminal.connect(port, 115200) followed by terminal.send_text('\r').
\* The new object is made before serial_thread is rebound.  Rebinding drops
\* the last reference to the old object: a finished one is freed; a running
\* QThread is destroyed while running, which is fatal in Qt, unless run()
\* is already executing and its frame keeps the object alive, and then the
\* thread runs on with nothing else referring to it.
terminal_connect_send ==
    LET old == serial_thread
        new == LowestFree(old)
        started == [NewThread EXCEPT !.txq = <<CR>>, !.sent = <<CR>>]
    IN /\ FreeIds(old) # {}
       /\ IF old # 0 /\ isRunning(old)
          THEN \/ /\ fatal' = "QThread destroyed while running"
                  /\ UNCHANGED <<thr, serial_thread>>
               \/ /\ thr' = [thr EXCEPT ![new] = started]
                  /\ serial_thread' = new
                  /\ UNCHANGED fatal
          ELSE /\ thr' = [i \in ThreadIds |->
                             IF i = new THEN started
                             ELSE IF i = old THEN NoThread
                             ELSE thr[i]]
               /\ serial_thread' = new
               /\ UNCHANGED fatal

\* a variant that puts the item at the front of the queue
ser_out_Front(i, s) ==
    [thr EXCEPT ![i].txq = <<s>> \o @, ![i].sent = Append(@, s)]

\* SerialThread.ser_out: the item joins the queue of object i
ser_out(i, s) ==
    [thr EXCEPT ![i].txq = Append(@, s), ![i].sent = Append(@, s)]

\* TerminalWidget.send_text, lines 169-174
send_text(text) ==
    IF is_connected
    THEN /\ thr' = ser_out(serial_thread, text)
         /\ UNCHANGED stdout
    ELSE /\ stdout' = Printed("Disconnected!")
         /\ UNCHANGED thr

\* TerminalWidget.keypress_handler: the key's text goes to ser_out of
\* whatever serial_thread refers to; without the attribute the handler raises
KeyPress(s) ==
    /\ alive
    /\ IF serial_thread = 0
       THEN /\ fatal' = "unhandled exception"
            /\ UNCHANGED thr
       ELSE /\ thr' = ser_out(serial_thread, s)
            /\ UNCHANGED fatal
    /\ UNCHANGED <<serial_thread, boardOpen, port_count, target_files, editor,
                   stack, lastRaw, prevShown, lastPut, lastUpload>>
    /\ UNCHANGED <<capVars, stdout>>

\* =========================================================================
\* The legacy listing consumer (SynTacticApp.py 645-662)
\* =========================================================================

\* str.splitlines(): the lines without their ends
SplitLines(s) ==
    LET kept == SplitLinesKeepEnds(s)
    IN [k \in DOMAIN kept |->
           IF kept[k][Len(kept[k])] = "\n"
           THEN SubSeq(kept[k], 1, Len(kept[k]) - 1) ELSE kept[k]]

\* str.split(sep) for a non-empty sep
RECURSIVE SplitOn(_, _, _)
SplitOn(s, sep, cur) ==
    IF s = <<>> THEN <<cur>>
    ELSE IF Len(s) >= Len(sep) /\ SubSeq(s, 1, Len(sep)) = sep
         THEN <<cur>> \o SplitOn(SubSeq(s, Len(sep) + 1, Len(s)), sep, <<>>)
         ELSE SplitOn(Tail(s), sep, Append(cur, Head(s)))

\* f.strip("[]'")
RECURSIVE StripQuoting(_)
StripQuoting(f) ==
    IF f # <<>> /\ Head(f) \in {"[", "]", "'"} THEN StripQuoting(Tail(f))
    ELSE IF f # <<>> /\ f[Len(f)] \in {"[", "]", "'"}
         THEN StripQuoting(SubSeq(f, 1, Len(f) - 1))
    ELSE f

\* line 659: the names on files_line
QuotedNames(files_line) ==
    LET parts == SplitOn(files_line, <<"'", ",", " ", "'">>, <<>>)
    IN [k \in DOMAIN parts |-> StripQuoting(parts[k])]

\* get_target_files_callback(text), run by the activation that invoked it.
\* self.callback = None is its first statement (ReceiveBody has cleared it);
\* text_lines[1] raises IndexError when text has fewer than two lines, and
\* the exception leaves the slot.
get_target_files_callback(text) ==
    /\ alive
    /\ cstack # <<>>
    /\ LET text_lines == SplitLines(text)
       IN IF Len(text_lines) < 2
          THEN /\ fatal' = "unhandled exception"
               /\ UNCHANGED <<target_files, cstack>>
          ELSE /\ target_files' = QuotedNames(text_lines[2])
               /\ cstack' = SubSeq(cstack, 1, Len(cstack) - 1)
               /\ UNCHANGED fatal
    /\ callback' = None
    /\ UNCHANGED <<captured_text, ending, regCount, lastReq, superseded,
                   stream, delivered, staleInvoked>>
    /\ UNCHANGED <<serial_thread, thr, boardOpen, port_count, editor, stack,
                   lastRaw, prevShown, lastPut, lastUpload, stdout>>

\* =========================================================================
\* Part III: Command/Transfer Orchestrator (SynTacticApp.py)
\* =========================================================================

\* ---- names, listings, contents
Untitled == <<"u", "n", "t", "i", "t", "l", "e", "d", ".", "p", "y">>

\* what ampy's ls() returns for one file
Entry(name, size) ==
    <<"/">> \o name \o <<" ", "-", " ">> \o size \o <<" ", "b", "y", "t", "e", "s">>

\* the listings the target can answer with
Listings == { <<>>,
              <<Entry(<<"a">>, <<"1">>), Entry(<<"b">>, <<"2">>)>>,
              <<Entry(<<"c">>, <<"3">>)>> }

\* the contents get() can return: U+00E9 in UTF-8, and a byte that is not
\* UTF-8
FileBytes == { <<195, 169>>, <<255>> }

\* what the save dialog can return when it is accepted
LocalPaths == { <<"/", "[", "/", "m">> }

\* s.split('-')[0]
RECURSIVE BeforeDash(_)
BeforeDash(s) ==
    IF s = <<>> \/ Head(s) = "-" THEN <<>> ELSE <<Head(s)>> \o BeforeDash(Tail(s))

\* s.lstrip('/ ') and s.rstrip('/ ')
RECURSIVE LStrip(_)
LStrip(s) ==
    IF s # <<>> /\ Head(s) \in {"/", " "} THEN LStrip(Tail(s)) ELSE s

RECURSIVE RStrip(_)
RStrip(s) ==
    IF s # <<>> /\ s[Len(s)] \in {"/", " "}
    THEN RStrip(SubSeq(s, 1, Len(s) - 1)) ELSE s

\* f.split('-')[0].strip('/ '), line 613
ListedName(f) == RStrip(LStrip(BeforeDash(f)))

\* the loop of lines 612-614
ListedNames(raw) == [k \in DOMAIN raw |-> ListedName(raw[k])]

\* os.path.split(p)[1]: what follows the last '/'
RECURSIVE Basename(_)
Basename(p) ==
    IF p = <<>> \/ p[Len(p)] = "/" THEN <<>>
    ELSE Basename(SubSeq(p, 1, Len(p) - 1)) \o <<p[Len(p)]>>

StartsWithBracket(s) == s # <<>> /\ Head(s) = "["

\* f"[{name}]"
Bracketed(name) == <<"[">> \o name \o <<"]">>

\* bytes.decode('utf-8') for one- and two-byte sequences
RECURSIVE Utf8Decode(_)
Utf8Decode(b) ==
    IF b = <<>> THEN [ok |-> TRUE, text |-> <<>>]
    ELSE IF b[1] < 128
         THEN LET r == Utf8Decode(Tail(b))
              IN [ok |-> r.ok, text |-> <<b[1]>> \o r.text]
    ELSE IF /\ b[1] >= 194 /\ b[1] <= 223 /\ Len(b) >= 2
            /\ b[2] >= 128 /\ b[2] <= 191
         THEN LET r == Utf8Decode(SubSeq(b, 3, Len(b)))
              IN [ok |-> r.ok,
                  text |-> <<(b[1] - 192) * 64 + (b[2] - 128)>> \o r.text]
    ELSE [ok |-> FALSE, text |-> <<>>]

\* str.encode('utf-8') for code points below 2048
RECURSIVE Utf8Encode(_)
Utf8Encode(t) ==
    IF t = <<>> THEN <<>>
    ELSE (IF t[1] < 128 THEN <<t[1]>>
          ELSE <<192 + (t[1] \div 64), 128 + (t[1] % 64)>>) \o Utf8Encode(Tail(t))

\* ---- documents: the current tab
NoEditor == [filename |-> <<>>, text |-> <<>>]

\* PythonEditor()
NewEditor == [filename |-> Untitled, text |-> <<>>]

\* save_file_as(editor) with what the dialog returned (<<>>: cancelled)
save_file_as(ed, choice) ==
    IF ed = NoEditor \/ choice = <<>> THEN ed
    ELSE [ed EXCEPT !.filename = choice]

\* save_file(editor); choice is used only if the dialog is opened
save_file(ed, choice) ==
    IF ed = NoEditor THEN ed
    ELSE IF ed.filename = Untitled \/ StartsWithBracket(ed.filename)
         THEN save_file_as(ed, choice)
         ELSE ed

\* ---- handler activations
Transfers == {"ListFiles", "Download", "Upload"}

\* the handler is inside app.processEvents()
PePcs == {"pe1", "pe2", "pe4", "pe5"}

Frame(h, pc) ==
    [h |-> h, pc |-> pc,
     tf |-> <<>>,          \* List Files: the local target_files
     raw |-> <<>>,         \* List Files: history, what ls() returned
     item |-> <<>>,        \* Download: the text of the item clicked
     itemAlive |-> TRUE,   \* Download: the QListWidgetItem still exists
     dname |-> <<>>,       \* Download: downloaded_filename
     efn |-> <<>>,         \* Upload: history, editor.filename when clicked
     fname |-> <<>>,       \* Upload: filename
     saved |-> <<>>,       \* Upload: history, editor.filename after save_file
     content |-> <<>>,     \* Upload: content
     wpc |-> "",           \* history: where the worker was when the stop
                           \* flag was set, kept until wait() returns
     closed |-> FALSE,     \* history: it closed the interactive session
     reconn |-> FALSE,     \* history: it called terminal.connect
     tail |-> <<>>]        \* history: what it has done since it last closed
                           \* or reopened the interactive session

Top == stack[Len(stack)]

SetTop(f) == [stack EXCEPT ![Len(stack)] = f]

Pop == SubSeq(stack, 1, Len(stack) - 1)

\* nothing has been put
NoPut == [name |-> <<>>, data |-> <<>>, efn |-> <<>>, content |-> <<>>]

\* The event loop, or a processEvents() call of the innermost handler, can
\* deliver a user event.
Dispatchable ==
    /\ alive
    /\ IF stack = <<>> THEN TRUE
       ELSE Top.pc \in PePcs /\ Len(stack) < MaxNest

\* the innermost handler is at pc of handler kind hs
At(hs, pc) ==
    /\ alive
    /\ stack # <<>>
    /\ Top.h \in hs
    /\ Top.pc = pc

\* QListWidget.clear() deletes the items: an item a handler still holds
\* is gone
ItemsDeleted(stk) == [k \in DOMAIN stk |-> [stk[k] EXCEPT !.itemAlive = FALSE]]

\* item.text(): of a deleted item, a crash or whatever the memory holds
ItemTexts(f) ==
    IF f.itemAlive THEN {f.item} ELSE {<<"a">>, <<>>}

\* ---- documents
\* on_new_clicked
ClickNew ==
    /\ Dispatchable
    /\ editor' = NewEditor
    /\ UNCHANGED <<serial_thread, thr, boardOpen, port_count, target_files,
                   stack, lastRaw, prevShown, lastPut, lastUpload, fatal>>
    /\ UNCHANGED <<capVars, stdout>>

\* the user types into the current document
TypeText(c) ==
    /\ Dispatchable
    /\ editor # NoEditor
    /\ Len(editor.text) < MaxText
    /\ editor' = [editor EXCEPT !.text = Append(editor.text, c)]
    /\ UNCHANGED <<serial_thread, thr, boardOpen, port_count, target_files,
                   stack, lastRaw, prevShown, lastPut, lastUpload, fatal>>
    /\ UNCHANGED <<capVars, stdout>>

\* on_save_clicked: with no tab, editor is None and editor.filename raises
ClickSave(choice) ==
    /\ Dispatchable
    /\ IF editor = NoEditor
       THEN /\ fatal' = "unhandled exception"
            /\ UNCHANGED editor
       ELSE /\ editor' = save_file(editor, choice)
            /\ UNCHANGED fatal
    /\ UNCHANGED <<serial_thread, thr, boardOpen, port_count, target_files,
                   stack, lastRaw, prevShown, lastPut, lastUpload>>
    /\ UNCHANGED <<capVars, stdout>>

\* on_save_as_clicked
ClickSaveAs(choice) ==
    /\ Dispatchable
    /\ editor # NoEditor
    /\ editor' = save_file_as(editor, choice)
    /\ UNCHANGED <<serial_thread, thr, boardOpen, port_count, target_files,
                   stack, lastRaw, prevShown, lastPut, lastUpload, fatal>>
    /\ UNCHANGED <<capVars, stdout>>

\* f'\x05{editor.text()}\x04\r', line 676
PasteBlock(text) == <<5>> \o text \o <<4, 13>>

\* on_run_button_clicked: with a tab, save_file and then the paste block is
\* sent; choice is what the Save As dialog returns if save_file opens it
ClickRun(choice) ==
    /\ Dispatchable
    /\ IF editor = NoEditor
       THEN UNCHANGED <<editor, thr, stdout>>
       ELSE /\ editor' = save_file(editor, choice)
            /\ send_text(PasteBlock(editor.text))
    /\ UNCHANGED <<serial_thread, boardOpen, port_count, target_files,
                   stack, lastRaw, prevShown, lastPut, lastUpload, fatal>>
    /\ UNCHANGED capVars

\* MainApp.closeEvent: confirm is the answer to "Are you sure you want to
\* exit ?", closed whether try_to_close_editor closed the tab.  An accepted
\* close event closes the only window: app.exec_() returns and sys.exit
\* ends the process.  Nothing here calls close_serial_port_and_wait, and
\* TerminalWidget.closeEvent is not called for a widget inside the window.
CloseWindow(confirm, closed) ==
    /\ Dispatchable
    /\ IF ~confirm THEN UNCHANGED <<editor, fatal>>
       ELSE IF editor = NoEditor \/ closed
            THEN /\ editor' = NoEditor
                 /\ fatal' = "exited"
            ELSE UNCHANGED <<editor, fatal>>
    /\ UNCHANGED <<serial_thread, thr, boardOpen, port_count, target_files,
                   stack, lastRaw, prevShown, lastPut, lastUpload>>
    /\ UNCHANGED <<capVars, stdout>>

\* on_port_scan_button_clicked
ScanPorts(n) ==
    /\ Dispatchable
    /\ port_count' = n
    /\ UNCHANGED <<serial_thread, thr, boardOpen, target_files, editor,
                   stack, lastRaw, prevShown, lastPut, lastUpload, fatal>>
    /\ UNCHANGED <<capVars, stdout>>

\* ---- Connect and Disconnect
\* on_port_connect_button_clicked, line 685 up to wait()
ClickConnect ==
    /\ Dispatchable
    /\ thr' = StopFlagSet
    /\ stack' = Append(stack, [Frame("Connect", "wait") EXCEPT
                                   !.wpc = WorkerAt])
    /\ UNCHANGED <<serial_thread, boardOpen, port_count, target_files, editor,
                   lastRaw, prevShown, lastPut, lastUpload, fatal>>
    /\ UNCHANGED <<capVars, stdout>>

\* on_port_connect_button_clicked, lines 687-693
ConnectAfterWait ==
    /\ At({"Connect"}, "wait")
    /\ WaitDone
    /\ IF port_count > 0
       THEN /\ terminal_connect_send
            /\ stack' = IF fatal' = "none" THEN Pop ELSE stack
       ELSE /\ stack' = Pop
            /\ UNCHANGED <<thr, serial_thread, fatal>>
    /\ UNCHANGED <<boardOpen, port_count, target_files, editor, lastRaw,
                   prevShown, lastPut, lastUpload>>
    /\ UNCHANGED <<capVars, stdout>>

\* on_port_disconnect_button_clicked, line 707 up to wait()
ClickDisconnect ==
    /\ Dispatchable
    /\ thr' = StopFlagSet
    /\ stack' = Append(stack, [Frame("Disconnect", "wait") EXCEPT
                                   !.wpc = WorkerAt])
    /\ UNCHANGED <<serial_thread, boardOpen, port_count, target_files, editor,
                   lastRaw, prevShown, lastPut, lastUpload, fatal>>
    /\ UNCHANGED <<capVars, stdout>>

\* on_port_disconnect_button_clicked, line 708
DisconnectAfterWait ==
    /\ At({"Disconnect"}, "wait")
    /\ WaitDone
    /\ stack' = Pop
    /\ UNCHANGED <<serial_thread, thr, boardOpen, port_count, target_files,
                   editor, lastRaw, prevShown, lastPut, lastUpload, fatal>>
    /\ UNCHANGED <<capVars, stdout>>

\* ---- the transfer handlers
\* on_get_target_files_button_clicked, lines 584-595, entered on stk
ListFilesEntry(stk) ==
    IF is_connected /\ port_count > 0
    THEN Append(stk, Frame("ListFiles", "pe1"))
    ELSE stk

ClickListFiles ==
    /\ Dispatchable
    /\ stack' = ListFilesEntry(stack)
    /\ UNCHANGED <<serial_thread, thr, boardOpen, port_count, target_files,
                   editor, lastRaw, prevShown, lastPut, lastUpload, fatal>>
    /\ UNCHANGED <<capVars, stdout>>

\* on_target_files_itemDoubleClicked, lines 373-380
ClickDownload(k) ==
    /\ Dispatchable
    /\ k \in DOMAIN target_files
    /\ stack' = IF is_connected /\ port_count > 0
                THEN Append(stack, [Frame("Download", "pe1") EXCEPT
                                        !.item = target_files[k]])
                ELSE stack
    /\ UNCHANGED <<serial_thread, thr, boardOpen, port_count, target_files,
                   editor, lastRaw, prevShown, lastPut, lastUpload, fatal>>
    /\ UNCHANGED <<capVars, stdout>>

\* a variant without the guard
UploadRejected_NoGuard(ed) == FALSE

\* the guard of lines 520-524
UploadRejected(ed) == StartsWithBracket(Basename(ed.filename))

\* on_upload_button_clicked, lines 517-533
ClickUpload(choice) ==
    /\ Dispatchable
    /\ editor # NoEditor
    /\ lastUpload' = IF UploadRejected(editor) THEN "rejected" ELSE "accepted"
    /\ IF UploadRejected(editor)
       THEN UNCHANGED <<editor, stack>>
       ELSE /\ editor' = save_file(editor, choice)
            /\ stack' = IF is_connected /\ port_count > 0
                        THEN Append(stack, [Frame("Upload", "pe1") EXCEPT
                                       !.efn = editor.filename,
                                       !.fname = Basename(editor.filename),
                                       !.saved = save_file(editor, choice).filename,
                                       !.content = editor.text])
                        ELSE stack
    /\ UNCHANGED <<serial_thread, thr, boardOpen, port_count, target_files,
                   lastRaw, prevShown, lastPut, fatal>>
    /\ UNCHANGED <<capVars, stdout>>

\* lines 597 / 535: close_serial_port_and_wait() up to wait()
CloseForTransfer ==
    /\ At({"ListFiles", "Upload"}, "pe1")
    /\ thr' = StopFlagSet
    /\ stack' = SetTop([Top EXCEPT !.pc = "wait", !.closed = TRUE,
                                   !.wpc = WorkerAt])
    /\ UNCHANGED <<serial_thread, boardOpen, port_count, target_files, editor,
                   lastRaw, prevShown, lastPut, lastUpload, fatal>>
    /\ UNCHANGED <<capVars, stdout>>

\* lines 381-383: downloaded_filename = item.text(), then
\* close_serial_port_and_wait() up to wait()
CloseForDownload ==
    /\ At({"Download"}, "pe1")
    /\ \/ /\ ~Top.itemAlive
          /\ fatal' = "deleted QListWidgetItem"
          /\ UNCHANGED <<thr, stack>>
       \/ \E t \in ItemTexts(Top) :
            /\ thr' = StopFlagSet
            /\ stack' = SetTop([Top EXCEPT !.pc = "wait", !.closed = TRUE,
                                           !.wpc = WorkerAt, !.dname = t])
            /\ UNCHANGED fatal
    /\ UNCHANGED <<serial_thread, boardOpen, port_count, target_files, editor,
                   lastRaw, prevShown, lastPut, lastUpload>>
    /\ UNCHANGED <<capVars, stdout>>

\* wait() returns; sleep; Pyboard(port) (lines 599-607, 385-393, 537-545).
\* A Pyboard that opens replaces self.board; one that cannot be opened
\* raises PyboardError (lines 621-623, 414-416, 556-558).
OpenBoard(ok) ==
    /\ At(Transfers, "wait")
    /\ WaitDone
    /\ boardOpen' = IF ok THEN TRUE ELSE boardOpen
    /\ stack' = SetTop([Top EXCEPT !.pc = IF ok THEN "pe2" ELSE "pe4",
                                   !.wpc = "", !.tail = <<"sleep">>])
    /\ UNCHANGED <<serial_thread, thr, port_count, target_files, editor,
                   lastRaw, prevShown, lastPut, lastUpload, fatal>>
    /\ UNCHANGED <<capVars, stdout>>

\* lines 609-619: ls() answered; board.close(); the names are collected
ListFilesLs(raw) ==
    /\ At({"ListFiles"}, "pe2")
    /\ boardOpen' = FALSE
    /\ stack' = SetTop([Top EXCEPT !.pc = "pe4", !.raw = raw,
                                   !.tf = ListedNames(raw)])
    /\ UNCHANGED <<serial_thread, thr, port_count, target_files, editor,
                   lastRaw, prevShown, lastPut, lastUpload, fatal>>
    /\ UNCHANGED <<capVars, stdout>>

\* lines 609, 621-623: ls() raises PyboardError
ListFilesLsError ==
    /\ At({"ListFiles"}, "pe2")
    /\ stack' = SetTop([Top EXCEPT !.pc = "pe4"])
    /\ UNCHANGED <<serial_thread, thr, boardOpen, port_count, target_files,
                   editor, lastRaw, prevShown, lastPut, lastUpload, fatal>>
    /\ UNCHANGED <<capVars, stdout>>

\* lines 395-412: get() answered with data.  The page is made and named
\* before the bytes are decoded; UnicodeDecodeError is not a PyboardError,
\* so it leaves the handler (pc "raised").
DownloadGet(data) ==
    /\ At({"Download"}, "pe2")
    /\ \/ /\ ~Top.itemAlive
          /\ fatal' = "deleted QListWidgetItem"
          /\ UNCHANGED <<editor, boardOpen, stack>>
       \/ LET d == Utf8Decode(data)
              page == [NewEditor EXCEPT !.filename = Bracketed(Top.dname)]
          IN IF d.ok
             THEN /\ editor' = [page EXCEPT !.text = d.text]
                  /\ boardOpen' = FALSE
                  /\ stack' = SetTop([Top EXCEPT !.pc = "pe4"])
                  /\ UNCHANGED fatal
             ELSE /\ editor' = page
                  /\ fatal' = "unhandled exception"
                  /\ stack' = SetTop([Top EXCEPT !.pc = "raised"])
                  /\ UNCHANGED boardOpen
    /\ UNCHANGED <<serial_thread, thr, port_count, target_files, lastRaw,
                   prevShown, lastPut, lastUpload>>
    /\ UNCHANGED <<capVars, stdout>>

\* lines 395, 414-416: get() raises PyboardError
DownloadGetError ==
    /\ At({"Download"}, "pe2")
    /\ stack' = SetTop([Top EXCEPT !.pc = "pe4"])
    /\ UNCHANGED <<serial_thread, thr, boardOpen, port_count, target_files,
                   editor, lastRaw, prevShown, lastPut, lastUpload, fatal>>
    /\ UNCHANGED <<capVars, stdout>>

\* lines 547-554: put() succeeded; board.close()
UploadPut ==
    /\ At({"Upload"}, "pe2")
    /\ lastPut' = [name |-> Top.fname, data |-> Utf8Encode(Top.content),
                   efn |-> Top.efn, content |-> Top.content]
    /\ boardOpen' = FALSE
    /\ stack' = SetTop([Top EXCEPT !.pc = "pe4"])
    /\ UNCHANGED <<serial_thread, thr, port_count, target_files, editor,
                   lastRaw, prevShown, lastUpload, fatal>>
    /\ UNCHANGED <<capVars, stdout>>

\* lines 549, 556-558: put() raises PyboardError
UploadPutError ==
    /\ At({"Upload"}, "pe2")
    /\ stack' = SetTop([Top EXCEPT !.pc = "pe4"])
    /\ UNCHANGED <<serial_thread, thr, boardOpen, port_count, target_files,
                   editor, lastRaw, prevShown, lastPut, lastUpload, fatal>>
    /\ UNCHANGED <<capVars, stdout>>

\* a variant without clear()
ShowListing_Append(shown, tf) == shown \o tf

\* self.target_files.clear(); self.target_files.addItems(target_files)
ShowListing(shown, tf) == tf

\* List Files, lines 625-637: reopen the session and show the names
ListFilesReconnect ==
    /\ At({"ListFiles"}, "pe4")
    /\ terminal_connect_send
    /\ IF fatal' = "none"
       THEN /\ target_files' = ShowListing(target_files, Top.tf)
            /\ lastRaw' = Top.raw
            /\ prevShown' = target_files
            /\ stack' = ItemsDeleted(SetTop([Top EXCEPT
                            !.pc = "pe5", !.reconn = TRUE,
                            !.tail = <<"send_text", "clear", "addItems",
                                       "sleep">>]))
       ELSE UNCHANGED <<target_files, lastRaw, prevShown, stack>>
    /\ UNCHANGED <<boardOpen, port_count, editor, lastPut, lastUpload>>
    /\ UNCHANGED <<capVars, stdout>>

\* List Files returns
ListFilesReturn ==
    /\ At({"ListFiles"}, "pe5")
    /\ stack' = Pop
    /\ UNCHANGED <<serial_thread, thr, boardOpen, port_count, target_files,
                   editor, lastRaw, prevShown, lastPut, lastUpload, fatal>>
    /\ UNCHANGED <<capVars, stdout>>

\* Download, lines 418-424: reopen the session (the sleep of line 426 is
\* commented out)
DownloadReconnect ==
    /\ At({"Download"}, "pe4")
    /\ terminal_connect_send
    /\ stack' = IF fatal' = "none"
                THEN SetTop([Top EXCEPT !.pc = "ret", !.reconn = TRUE,
                                        !.tail = <<"send_text">>])
                ELSE stack
    /\ UNCHANGED <<boardOpen, port_count, target_files, editor, lastRaw,
                   prevShown, lastPut, lastUpload>>
    /\ UNCHANGED <<capVars, stdout>>

\* Download returns
DownloadReturn ==
    /\ At({"Download"}, "ret")
    /\ stack' = Pop
    /\ UNCHANGED <<serial_thread, thr, boardOpen, port_count, target_files,
                   editor, lastRaw, prevShown, lastPut, lastUpload, fatal>>
    /\ UNCHANGED <<capVars, stdout>>

\* Upload, lines 560-569: reopen the session
UploadReconnect ==
    /\ At({"Upload"}, "pe4")
    /\ terminal_connect_send
    /\ stack' = IF fatal' = "none"
                THEN SetTop([Top EXCEPT !.pc = "pe5", !.reconn = TRUE,
                                        !.tail = <<"send_text", "sleep">>])
                ELSE stack
    /\ UNCHANGED <<boardOpen, port_count, target_files, editor, lastRaw,
                   prevShown, lastPut, lastUpload>>
    /\ UNCHANGED <<capVars, stdout>>

\* Upload, line 570: its last statement calls
\* on_get_target_files_button_clicked()
UploadListFiles ==
    /\ At({"Upload"}, "pe5")
    /\ stack' = ListFilesEntry(Pop)
    /\ UNCHANGED <<serial_thread, thr, boardOpen, port_count, target_files,
                   editor, lastRaw, prevShown, lastPut, lastUpload, fatal>>
    /\ UNCHANGED <<capVars, stdout>>

\* =========================================================================
\* Specifications
\* =========================================================================

CaptureInit ==
    /\ callback = None
    /\ captured_text = <<>>
    /\ ending = <<>>
    /\ cstack = <<>>
    /\ regCount = 0
    /\ lastReq = [cb |-> "None", ending |-> <<>>]
    /\ superseded = {}
    /\ stream = <<>>
    /\ delivered = <<>>
    /\ staleInvoked = FALSE

ConnInit ==
    /\ serial_thread = 0
    /\ thr = [i \in ThreadIds |-> NoThread]
    /\ boardOpen = FALSE
    /\ port_count \in {0, 1}
    /\ target_files = <<>>
    /\ editor = NoEditor
    /\ stack = <<>>
    /\ lastRaw = <<>>
    /\ prevShown = <<>>
    /\ lastPut = NoPut
    /\ lastUpload = "none"
    /\ stdout = Printed("")

Init ==
    /\ CaptureInit
    /\ ConnInit
    /\ fatal = "none"

CaptureNext ==
    \/ \E cb \in CallbackKinds \cup {"None"}, e \in Endings : Register(cb, e)
    \/ \E s \in Texts(1, MaxChunk) : Notify(s)
    \/ \E s \in Texts(1, MaxChunk) : NotifyInsideCallback(s)
    \/ CallbackReturns
    \/ CallbackRaises

SpecCapture == Init /\ [][CaptureNext]_vars

WorkerNext ==
    \E i \in ThreadIds :
        \/ \E ok \in BOOLEAN : WorkerOpen(i, ok)
        \/ WorkerCheck(i)
        \/ WorkerRead(i)
        \/ WorkerWrite(i)

\* Connect and Disconnect only
SessionNext ==
    \/ WorkerNext
    \/ \E n \in {0, 1} : ScanPorts(n)
    \/ ClickConnect
    \/ ConnectAfterWait
    \/ ClickDisconnect
    \/ DisconnectAfterWait

SpecSession == Init /\ [][SessionNext]_vars

\* the worker is scheduled, and the UI thread goes on once wait() can return
SessionFairness ==
    /\ \A i \in ThreadIds :
          WF_vars((\E ok \in BOOLEAN : WorkerOpen(i, ok))
                  \/ WorkerCheck(i) \/ WorkerRead(i) \/ WorkerWrite(i))
    /\ WF_vars(ConnectAfterWait)
    /\ WF_vars(DisconnectAfterWait)

SpecSessionFair == SpecSession /\ SessionFairness

\* the link: Connect, Disconnect and List Files, nested up to MaxNest
LinkNext ==
    \/ WorkerNext
    \/ \E n \in {0, 1} : ScanPorts(n)
    \/ ClickConnect
    \/ ConnectAfterWait
    \/ ClickDisconnect
    \/ DisconnectAfterWait
    \/ ClickListFiles
    \/ CloseForTransfer
    \/ \E ok \in BOOLEAN : OpenBoard(ok)
    \/ \E raw \in Listings : ListFilesLs(raw)
    \/ ListFilesLsError
    \/ ListFilesReconnect
    \/ ListFilesReturn

SpecLink == Init /\ [][LinkNext]_vars

\* documents and all three transfers; a handler that opens a frame starts
\* only while at most MaxDocNest - 1 handlers are suspended
DocsNext ==
    \/ WorkerNext
    \/ ClickNew
    \/ TypeText(120)
    \/ \E choice \in LocalPaths \cup {<<>>} : ClickSave(choice)
    \/ \E choice \in LocalPaths \cup {<<>>} : ClickSaveAs(choice)
    \/ ClickConnect /\ Len(stack') <= MaxDocNest
    \/ ConnectAfterWait
    \/ ClickListFiles /\ Len(stack') <= MaxDocNest
    \/ \E k \in 1..2 : ClickDownload(k) /\ Len(stack') <= MaxDocNest
    \/ \E choice \in LocalPaths \cup {<<>>} :
          ClickUpload(choice) /\ Len(stack') <= MaxDocNest
    \/ CloseForTransfer
    \/ CloseForDownload
    \/ \E ok \in BOOLEAN : OpenBoard(ok)
    \/ \E raw \in Listings : ListFilesLs(raw)
    \/ ListFilesLsError
    \/ \E data \in FileBytes : DownloadGet(data)
    \/ DownloadGetError
    \/ UploadPut
    \/ UploadPutError
    \/ ListFilesReconnect
    \/ ListFilesReturn
    \/ DownloadReconnect
    \/ DownloadReturn
    \/ UploadReconnect
    \/ UploadListFiles

SpecDocs == Init /\ [][DocsNext]_vars

\* ---- one Upload to a target that starts empty and keeps what is put
\* what the Save dialog can return here: one name has a '-'
RoundTripPaths == { <<"/", "m">>, <<"/", "a", "-", "b">> }

\* what ls() answers: the file that was put, if any
TargetListing ==
    IF lastPut = NoPut THEN <<>> ELSE <<Entry(lastPut.name, <<"1">>)>>

\* get(f'./{item.text()}') finds the file that was put under that name
TargetHolds(name) == lastPut # NoPut /\ name = lastPut.name

RoundTripNext ==
    \/ WorkerNext
    \/ ClickNew
    \/ \E c \in {120, 233} : TypeText(c)
    \/ ClickConnect /\ Len(stack') <= MaxDocNest
    \/ ConnectAfterWait
    \/ \E choice \in RoundTripPaths \cup {<<>>} :
          /\ lastPut = NoPut
          /\ stack = <<>>
          /\ ClickUpload(choice)
    \/ CloseForTransfer
    \/ CloseForDownload
    \/ \E ok \in BOOLEAN : OpenBoard(ok)
    \/ UploadPut
    \/ UploadReconnect
    \/ UploadListFiles
    \/ ListFilesLs(TargetListing)
    \/ ListFilesReconnect
    \/ ListFilesReturn
    \/ ClickDownload(1) /\ Len(stack') <= MaxDocNest
    \/ /\ At({"Download"}, "pe2")
       /\ TargetHolds(Top.item)
       /\ DownloadGet(lastPut.data)
    \/ /\ At({"Download"}, "pe2")
       /\ ~TargetHolds(Top.item)
       /\ DownloadGetError
    \/ DownloadReconnect
    \/ DownloadReturn

SpecRoundTrip == Init /\ [][RoundTripNext]_vars

\* ---- one capture whose consumer is get_target_files_callback
LegacyListNext ==
    \/ \E e \in Endings : regCount = 0 /\ Register("clears", e)
    \/ \E s \in Texts(1, MaxChunk) : Notify(s)
    \/ /\ delivered # <<>>
       /\ get_target_files_callback(delivered[Len(delivered)].text)

SpecLegacyList == Init /\ [][LegacyListNext]_vars

\* ---- Connect, Disconnect and closing the main window
ExitNext ==
    \/ WorkerNext
    \/ ClickNew
    \/ ClickConnect
    \/ ConnectAfterWait
    \/ ClickDisconnect
    \/ DisconnectAfterWait
    \/ \E confirm \in BOOLEAN, closed \in BOOLEAN : CloseWindow(confirm, closed)

SpecExit == Init /\ [][ExitNext]_vars

\* ---- captures whose consumer may register the next capture
ReentrantNext ==
    \/ \E cb \in CallbackKinds, e \in Endings : Register(cb, e)
    \/ \E cb \in CallbackKinds, e \in Endings : RegisterInsideCallback(cb, e)
    \/ \E s \in Texts(1, MaxChunk) : Notify(s)
    \/ CallbackReturns

SpecReentrant == Init /\ [][ReentrantNext]_vars

\* ---- captures while the application prints its own diagnostics
EchoNext ==
    \/ \E cb \in CallbackKinds, e \in Endings : Register(cb, e)
    \/ \E s \in Texts(1, MaxChunk) : Notify(s)
    \/ PrintNotified(DisconnectedText)
    \/ CallbackReturns

SpecEcho == Init /\ [][EchoNext]_vars

\* ---- Connect and Disconnect with a device that sends data and can fail
\* the chunks a read can return: printable, control, DEL and 8-bit bytes
Chunks == { <<65>>, <<10>>, <<126, 127>>, <<255>>, <<13, 10>> }

DeviceNext ==
    \/ WorkerNext
    \/ \E i \in ThreadIds, s \in Chunks : WorkerReadData(i, s)
    \/ \E i \in ThreadIds : WorkerReadFault(i)
    \/ \E i \in ThreadIds : WorkerWriteFault(i)
    \/ ClickConnect
    \/ ConnectAfterWait
    \/ ClickDisconnect
    \/ DisconnectAfterWait

SpecDevice == Init /\ [][DeviceNext]_vars

\* ---- Connect, Disconnect, Run and the keyboard: what is sent and written
RunNext ==
    \/ WorkerNext
    \/ ClickNew
    \/ \E c \in {120, 233} : TypeText(c)
    \/ ClickConnect
    \/ ConnectAfterWait
    \/ ClickDisconnect
    \/ DisconnectAfterWait
    \/ \E choice \in LocalPaths \cup {<<>>} :
          /\ \A i \in ThreadIds : Len(thr[i].sent) < MaxSent
          /\ ClickRun(choice)
    \/ /\ \A i \in ThreadIds : Len(thr[i].sent) < MaxSent
       /\ KeyPress(<<97>>)

SpecRun == Init /\ [][RunNext]_vars

\* ------------------------------------------------------- claims of Part I

Contains(s, sub) == \E i \in 0..Len(s) : OccursAt(s, sub, i)

\* i is the offset of the first occurrence of sub in s
FirstOccurrence(s, sub, i) ==
    /\ OccursAt(s, sub, i)
    /\ \A j \in 0..(i - 1) : ~OccursAt(s, sub, j)

\* C1 (sentinel framing): with a consumer registered, the consumer has been
\* handed text exactly when the text notified since the registration
\* contains the sentinel, and what it was handed is the text strictly
\* before the sentinel's first occurrence in that whole text, however the
\* text was cut into notifications.
C1_SentinelFraming ==
    lastReq.cb # "None" =>
        /\ Contains(stream, lastReq.ending) <=> delivered # <<>>
        /\ \A k \in DOMAIN delivered :
              \E i \in 0..Len(stream) :
                  /\ FirstOccurrence(stream, lastReq.ending, i)
                  /\ delivered[k].text = Slice(stream, 0, i)

\* a delivery of a non-empty prefix whose sentinel began in an earlier
\* notification than the one that completed it
C1_Witness ==
    \E k \in DOMAIN delivered :
        /\ Len(delivered[k].text) > 0
        /\ delivered[k].before > Len(delivered[k].text)

\* C2 (at most one capture): the one pending capture is the newest
\* registration's (its consumer, its sentinel, an accumulator holding only
\* what was notified since it was registered), and no consumer other than
\* the newest registration's is ever invoked.
C2_AtMostOneCapture ==
    /\ callback # None =>
          /\ callback.id = regCount
          /\ callback.kind = lastReq.cb
    /\ ending = lastReq.ending
    /\ captured_text = stream
    /\ ~staleInvoked

\* a pending capture was superseded and the newest consumer was then invoked
C2_Witness ==
    /\ superseded # {}
    /\ delivered # <<>>

\* C3 (single delivery): the consumer of a registration is invoked at most
\* once.
C3_SingleDelivery == Len(delivered) <= 1

\* ---------------------------------------------- claims of Parts II and III

Running == {i \in ThreadIds : isRunning(i)}

Holding == {i \in ThreadIds : thr[i].ser}

\* C4 (at most one worker thread): after any sequence of Connect,
\* Disconnect and transfer operations, also ones started inside a suspended
\* handler's processEvents(), at most one SerialThread is running, at most
\* one holds the serial device, and no running SerialThread has been
\* replaced (destroyed) by terminal.connect.
C4_AtMostOneWorker ==
    /\ Cardinality(Running) <= 1
    /\ Cardinality(Holding) <= 1
    /\ fatal # "QThread destroyed while running"

\* C5 (exclusive link ownership): the Pyboard and the worker never hold the
\* link together, and when a transfer handler is about to call
\* terminal.connect the Pyboard it opened has been closed.
C5_ExclusiveLink ==
    /\ ~(boardOpen /\ Holding # {})
    /\ At(Transfers, "pe4") => ~boardOpen

\* the innermost handler ends in this step: it returns, an exception leaves
\* it, or (Upload) it hands over to List Files
Ends ==
    \/ Len(stack') < Len(stack)
    \/ /\ Len(stack') = Len(stack)
       /\ \/ stack'[Len(stack)].pc = "raised"
          \/ stack'[Len(stack)].h # Top.h

\* C6 (session restore): a transfer handler that closed the interactive
\* session does not end, by returning or by an exception leaving it,
\* without having called terminal.connect.
C6_Step ==
    (/\ stack # <<>>
     /\ Top.h \in Transfers
     /\ Top.closed
     /\ Ends)
        => (Top.reconn \/ serial_thread' # serial_thread)

C6_SessionRestored == [][C6_Step]_vars

\* C7 (unsaved-download guard): an Upload click on a document whose filename
\* carries the bracketed marker changes nothing but the record of its
\* rejection: the session is not closed, no Pyboard is opened, nothing is
\* put; and no Upload that went on, and no put, came from such a document.
C7_RejectStep ==
    (/\ StartsWithBracket(editor.filename)
     /\ \E choice \in LocalPaths \cup {<<>>} : ClickUpload(choice))
        => /\ lastUpload' = "rejected"
           /\ UNCHANGED <<serial_thread, thr, boardOpen, stack, lastPut,
                          editor, target_files, fatal>>

C7_NoBracketedUpload ==
    /\ ~StartsWithBracket(lastPut.efn)
    /\ \A k \in DOMAIN stack :
          stack[k].h = "Upload" => ~StartsWithBracket(stack[k].efn)

C7_UnsavedDownloadGuard == [][C7_RejectStep]_vars /\ []C7_NoBracketedUpload

\* a downloaded document, still unsaved, whose Upload was rejected
C7_Witness ==
    /\ lastUpload = "rejected"
    /\ StartsWithBracket(editor.filename)
    /\ is_connected
    /\ port_count > 0

\* a call of close_serial_port_and_wait begins
CloseCall ==
    ClickConnect \/ ClickDisconnect \/ CloseForTransfer \/ CloseForDownload

\* C8 (idempotent disconnect): a close_serial_port_and_wait that begins
\* when there is no connection changes nothing of the connection, raises
\* nothing, and its wait() can return at once.
C8_NoOpStep ==
    (~is_connected /\ CloseCall)
        => /\ UNCHANGED <<serial_thread, thr, boardOpen, fatal>>
           /\ WaitDone'

C8_IdempotentDisconnect == [][C8_NoOpStep]_vars

\* Disconnect is inside close_serial_port_and_wait, and the worker had
\* already finished when it was called: a second close in a row
C8_Witness ==
    /\ stack # <<>>
    /\ Top.h = "Disconnect"
    /\ Top.pc = "wait"
    /\ Top.wpc = "finished"

\* a call of close_serial_port_and_wait is inside wait()
Waiting == alive /\ stack # <<>> /\ Top.pc = "wait"

\* C9 (synchronous disconnect): every close_serial_port_and_wait on a
\* running worker returns, and when wait() can return the worker has left
\* its loop and holds no device handle.
C9_Returns == Waiting ~> ~Waiting

C9_ReleasedAtReturn ==
    (Waiting /\ WaitDone /\ serial_thread # 0)
        => /\ thr[serial_thread].pc = "finished"
           /\ ~thr[serial_thread].ser

C9_SynchronousDisconnect == C9_Returns /\ []C9_ReleasedAtReturn

\* the stop flag was set while the worker was inside a read with the port
\* open, and wait() is about to return
C9_Witness ==
    /\ Waiting
    /\ Top.wpc = "read"
    /\ WaitDone

\* C10 (listing replace semantics): the displayed list is exactly the names
\* of the listing that last updated it (none if that listing failed).
C10_ListingReplaced == target_files = ListedNames(lastRaw)

\* [a, b] was shown and the next List Files showed [c] only
C10_Witness ==
    /\ prevShown = <<<<"a">>, <<"b">>>>
    /\ target_files = <<<<"c">>>>

\* C11 (upload/download round trip): when Download's get() is performed
\* after an Upload put the document's text c under the name n, and the item
\* chosen is the one listed for n, the step yields a downloaded document
\* whose text is c.
C11_Step ==
    (/\ At({"Download"}, "pe2")
     /\ lastPut # NoPut
     /\ stack' # stack)
        => /\ fatal' = "none"
           /\ editor'.filename = Bracketed(Top.dname)
           /\ editor'.text = lastPut.content

C11_RoundTrip == [][C11_Step]_vars

\* ------------------------------------------------------ claims of Part II (2)

\* object i has tried to open its port and holds no handle: the open failed,
\* or run() has closed the port
PortNotOpen(i) == thr[i].pc \notin {"free", "start"} /\ ~thr[i].ser

\* send_text has put Run's paste block on the queue of object i
Accepted(i) ==
    /\ thr[i].pc # "free"
    /\ thr'[i].sent # thr[i].sent
    /\ Head(thr'[i].sent[Len(thr'[i].sent)]) = 5

\* C12 (send while disconnected): text is accepted for transmission only by
\* the object serial_thread refers to and never while that object's port
\* could not be opened or has been closed (then nothing is queued and
\* 'Disconnected!' is reported); 'Disconnected!' is reported only while no
\* connection is open, and then no queue changes and nothing is fatal.
C12_Step ==
    /\ \A i \in ThreadIds :
          Accepted(i) => /\ i = serial_thread
                         /\ ~PortNotOpen(i)
                         /\ thr'[i].txq = Append(thr[i].txq, thr'[i].sent[Len(thr'[i].sent)])
    /\ (stdout' = Printed("Disconnected!") /\ stdout' # stdout)
          => /\ IF serial_thread = 0 THEN TRUE ELSE ~thr[serial_thread].ser
             /\ thr' = thr
             /\ fatal' = "none"

C12_SendWhileDisconnected == [][C12_Step]_vars

\* C13 (FIFO outbound order): for every SerialThread object, what it has
\* written followed by what is still queued is exactly what ser_out was
\* given, in that order; a write adds one item, the head of the queue, and
\* ends a loop cycle; and a write is reached only from that cycle's read poll.
C13_Order == \A i \in ThreadIds : thr[i].sent = thr[i].wire \o thr[i].txq

C13_Step ==
    \A i \in ThreadIds :
        (thr[i].pc # "free" /\ thr'[i].pc # "free")
            => /\ thr'[i].wire # thr[i].wire
                    => /\ thr[i].pc = "write" /\ thr'[i].pc = "loop"
                       /\ thr[i].txq # <<>>
                       /\ thr'[i].wire = Append(thr[i].wire, Head(thr[i].txq))
                       /\ thr'[i].txq = Tail(thr[i].txq)
               /\ (thr'[i].pc = "write" /\ thr[i].pc # "write")
                    => thr[i].pc = "read"
               /\ (thr[i].pc = "write" /\ thr'[i].pc # "write")
                    => thr'[i].pc = "loop"

C13_FifoOutbound == []C13_Order /\ [][C13_Step]_vars

\* a burst: one item has been written while two more wait in the queue
C13_Witness ==
    \E i \in ThreadIds :
        /\ Len(thr[i].wire) >= 1
        /\ Len(thr[i].txq) >= 2
        /\ thr[i].txq[1] # thr[i].txq[2]

\* the open of object i failed and run() has not returned yet
FailedOpen(i) == thr[i].pc \in {"loop", "read", "write"} /\ ~thr[i].ser

\* run() of object i has returned
Ended(i) == thr[i].pc \in {"finished", "free"}

\* C14 (failed open): the step in which the open fails prints "Can't open
\* port" and is not fatal (connect has returned to its caller before); a
\* worker whose open failed is never at a read or a write, its next step is
\* to end, having written nothing and holding no handle; it does end; and
\* once it has ended is_connected() is false.
C14_Closed ==
    \A i \in ThreadIds :
        /\ FailedOpen(i) => thr[i].pc = "loop" /\ ~thr[i].running
        /\ thr[i].pc = "finished" => ~thr[i].ser /\ ~isRunning(i)

C14_Step ==
    \A i \in ThreadIds :
        /\ (thr[i].pc = "start" /\ thr'[i].pc # "start" /\ ~thr'[i].ser)
              => /\ stdout' = Printed("Can't open port")
                 /\ fatal' = "none"
                 /\ thr'[i].wire = <<>>
        /\ (FailedOpen(i) /\ thr'[i] # thr[i] /\ thr'[i].pc # "free")
              => /\ thr'[i].wire = <<>>
                 /\ ~thr'[i].ser
                 /\ thr'[i].pc \in {"loop", "finished"}

C14_FailedOpen ==
    /\ []C14_Closed
    /\ [][C14_Step]_vars
    /\ \A i \in ThreadIds : FailedOpen(i) ~> Ended(i)

\* the newest open failed, its worker has ended and the CR that Connect
\* queued was never written
C14_Witness ==
    /\ serial_thread # 0
    /\ stdout = Printed("Can't open port")
    /\ thr[serial_thread].pc = "finished"
    /\ thr[serial_thread].txq = <<CR>>
    /\ thr[serial_thread].wire = <<>>
    /\ ~is_connected

\* C15 (handle release on loop exit): whenever run() of a SerialThread
\* object is over, whichever way it was left, the object holds no open
\* handle.
C15_HandleReleased ==
    \A i \in ThreadIds : thr[i].pc \in {"finished", "raised"} => ~thr[i].ser

\* C16 (raw passthrough): a read that returns a chunk hands sys.stdout one
\* text, and that text is the chunk, one character per byte.
C16_Step ==
    \A i \in ThreadIds :
        (thr[i].pc = "read" /\ thr'[i].pc = "write" /\ thr'[i].rx # <<>>)
            => stdout' = Shown(thr'[i].rx)

C16_RawPassthrough == [][C16_Step]_vars

\* ----------------------------------------------------- claims of Part III (2)

\* C17 (download tagging): when the step of a Download that asks the target
\* for the file puts a document into the editor, the document's filename is
\* the bracketed text of the item that was double-clicked, and the download
\* has not failed (the handler goes on and nothing is fatal); a download
\* that fails leaves the documents as they were.
C17_Step ==
    (At({"Download"}, "pe2") /\ stack' # stack /\ editor' # editor)
        => /\ editor'.filename = Bracketed(Top.item)
           /\ fatal' = "none"
           /\ stack'[Len(stack')].pc = "pe4"

C17_DownloadTagging == [][C17_Step]_vars

\* C18 (run without upload): when Run's paste block is queued it is 0x05,
\* the document's whole text, 0x04 and CR as one item, and the document then
\* has a local file name: it is neither 'untitled.py' nor a bracketed name.
C18_Step ==
    \A i \in ThreadIds :
        Accepted(i)
            => /\ thr'[i].sent[Len(thr'[i].sent)] = PasteBlock(editor'.text)
               /\ Len(thr'[i].sent) = Len(thr[i].sent) + 1
               /\ editor'.filename # Untitled
               /\ ~StartsWithBracket(editor'.filename)

C18_RunSavedOnly == [][C18_Step]_vars

\* C19 (settle delay ordering): whenever a List Files, Download or Upload
\* that has closed or reopened the interactive session is at a point where
\* it processes events or returns, it has slept COMMAND_DELAY since the
\* newest close or reopen.
C19_Settled ==
    \A k \in DOMAIN stack :
        (/\ stack[k].h \in Transfers
         /\ stack[k].closed \/ stack[k].reconn
         /\ stack[k].pc \in PePcs \cup {"ret"})
            => \E n \in DOMAIN stack[k].tail : stack[k].tail[n] = "sleep"

\* ---------------------------------------------------- claims of Part I (2)

\* C20 (no timeout on capture): as long as the text notified since the
\* newest registration of a consumer does not contain the sentinel, that
\* registration is still the pending one, its consumer has not been invoked
\* and is not running, and the accumulator holds every notification made
\* since the registration; so only a new registration ends the capture.
C20_NoTimeout ==
    (/\ regCount > 0
     /\ lastReq.cb # "None"
     /\ ~Contains(stream, lastReq.ending))
        => /\ callback = [id |-> regCount, kind |-> lastReq.cb]
           /\ ending = lastReq.ending
           /\ delivered = <<>>
           /\ cstack = <<>>
           /\ captured_text = stream

\* several notifications, as much text as the bound allows, a sentinel that
\* has begun but is not complete: the capture is still pending
C20_Witness ==
    /\ callback # None
    /\ Len(stream) = MaxStream
    /\ Len(lastReq.ending) = 2
    /\ ~Contains(stream, lastReq.ending)
    /\ Contains(stream, SubSeq(lastReq.ending, 1, 1))
    /\ captured_text = stream

\* C21 (legacy listing with a missing line): when get_target_files_callback
\* runs on a text that has no second line, nothing is fatal, the file list
\* becomes empty and the consumer is no longer registered.
C21_Step ==
    (/\ cstack # <<>>
     /\ delivered # <<>>
     /\ Len(SplitLines(delivered[Len(delivered)].text)) < 2
     /\ callback' = None
     /\ (cstack' # cstack \/ fatal' # fatal))
        => /\ fatal' = "none"
           /\ target_files' = <<>>

C21_SilentOnMissingLine == [][C21_Step]_vars

\* C22 (connection lifetime ends at application exit): when the close of
\* the main window is accepted while a worker holds the serial device open,
\* then as the application ends that worker's stop flag is set, it is no
\* longer running and the device is closed.
C22_Step ==
    \A i \in ThreadIds :
        (thr[i].ser /\ fatal = "none" /\ fatal' = "exited")
            => /\ ~thr'[i].running
               /\ ~isRunning(i)'
               /\ ~thr'[i].ser

C22_ClosedAtExit == [][C22_Step]_vars

\* C23 (registration from inside a callback survives): when the outermost
\* invocation of a consumer returns and the pending capture is one that was
\* registered during that invocation (the newest registration, not the
\* consumer that was running), the capture is still registered afterwards.
C23_Step ==
    (/\ Len(cstack) = 1
     /\ cstack' = <<>>
     /\ callback # None
     /\ callback.id = regCount
     /\ callback.id # cstack[1])
        => callback' = callback

C23_InnerRegistrationSurvives == [][C23_Step]_vars

\* C24 (upload target name): the put of an Upload stores the file under the
\* base name the document has after the save step of that Upload, and the
\* bytes stored are the UTF-8 encoding of the document's text.
C24_Step ==
    (At({"Upload"}, "pe2") /\ lastPut = NoPut /\ lastPut' # NoPut)
        => /\ lastPut'.name = Basename(Top.saved)
           /\ lastPut'.data = Utf8Encode(Top.content)

C24_UploadTargetName == [][C24_Step]_vars

\* the file name of a listing entry '/name - size bytes': what stands between
\* the leading '/' and the last ' - '
EntryName(f) ==
    LET at == {i \in 1..(Len(f) - 2) : SubSeq(f, i, i + 2) = <<" ", "-", " ">>}
        last == CHOOSE i \in at : \A j \in at : j <= i
    IN IF at = {} \/ f = <<>> \/ Head(f) # "/" THEN f
       ELSE SubSeq(f, 2, last - 1)

\* C25 (listed names are the remote names): the displayed list holds, in
\* order, exactly the file name of each entry of the listing it was made
\* from.
C25_ListedNames ==
    target_files = [k \in DOMAIN lastRaw |-> EntryName(lastRaw[k])]

\* C26 (capture stream contains only target output): the accumulator, and
\* every text handed to a consumer, holds only characters the device sent
\* (the device's texts are over Chars; the application's diagnostics are
\* not), and a capture is completed only by text from the device.
OnlyDeviceText(t) == \A k \in DOMAIN t : t[k] \in Chars

C26_OnlyTargetOutput ==
    /\ callback # None => OnlyDeviceText(captured_text)
    /\ \A k \in DOMAIN delivered : OnlyDeviceText(delivered[k].text)

\* C27 (no silent loss of accepted sends): a SerialThread object whose run()
\* has returned has written every item it was given, the carriage return of
\* Connect included; nothing accepted is left in its queue for good.
C27_NoLostSend ==
    \A i \in ThreadIds :
        thr[i].pc = "finished" => /\ thr[i].txq = <<>>
                                  /\ thr[i].wire = thr[i].sent

====
